---- MODULE Spec2Model ----
(***************************************************************************)
(* ProjectManager (src/project_manager.py): a pathlib based project        *)
(* scanner with find / copy / delete helpers.                              *)
(*                                                                         *)
(* Strings are tuples of one-character strings, so that str.lower(),       *)
(* str.startswith(), Path.suffix, fnmatch and string ordering are computed *)
(* character by character.  A path is a tuple of names, absolute from the  *)
(* filesystem root <<>>.  The filesystem is a function from the existing   *)
(* paths to [kind, size]; a file's bytes are represented by their length.  *)
(***************************************************************************)
EXTENDS Integers, Sequences, FiniteSets, TLC

VARIABLES fs, managers, FILE_TYPES, call, ret, count, mutations

vars == <<fs, managers, FILE_TYPES, call, ret, count, mutations>>

(***************************************************************************)
(* Bounds of the exploration.                                              *)
(***************************************************************************)
MaxEntries == 3
MaxScanDepth == 2
MaxMutations == 1

(***************************************************************************)
(* Characters and strings.                                                 *)
(***************************************************************************)
LowerLetters == <<"a","b","c","d","e","f","g","h","i","j","k","l","m",
                  "n","o","p","q","r","s","t","u","v","w","x","y","z">>
UpperLetters == <<"A","B","C","D","E","F","G","H","I","J","K","L","M",
                  "N","O","P","Q","R","S","T","U","V","W","X","Y","Z">>

\* The characters in increasing code point order.
Ascii == <<"*", ".", "/", "0","1","2","3","4","5","6","7","8","9", "?">>
         \o UpperLetters \o LowerLetters

CodePoint == [c \in {Ascii[i] : i \in DOMAIN Ascii} |->
                 CHOOSE i \in DOMAIN Ascii : Ascii[i] = c]

Ord(c) == CodePoint[c]

ToLower == [c \in {Ascii[i] : i \in DOMAIN Ascii} |->
               IF \E i \in DOMAIN UpperLetters : UpperLetters[i] = c
               THEN LowerLetters[CHOOSE i \in DOMAIN UpperLetters : UpperLetters[i] = c]
               ELSE c]

ToUpper == [c \in {Ascii[i] : i \in DOMAIN Ascii} |->
               IF \E i \in DOMAIN LowerLetters : LowerLetters[i] = c
               THEN UpperLetters[CHOOSE i \in DOMAIN LowerLetters : LowerLetters[i] = c]
               ELSE c]

LowerChar(c) == ToLower[c]

UpperChar(c) == ToUpper[c]

\* str.lower()
Lower(s) == [i \in 1..Len(s) |-> LowerChar(s[i])]

\* str.startswith('.')
StartsWithDot(s) == Len(s) >= 1 /\ s[1] = "."

\* s < t for str: lexicographic by code point
RECURSIVE StrLess(_, _)
StrLess(s, t) ==
    IF t = <<>> THEN FALSE
    ELSE IF s = <<>> THEN TRUE
    ELSE IF s[1] # t[1] THEN Ord(s[1]) < Ord(t[1])
    ELSE StrLess(Tail(s), Tail(t))

\* Path.suffix: the part of the name from its last dot, if that dot is
\* neither the first nor the last character
Suffix(name) ==
    LET dots == {i \in 1..Len(name) : name[i] = "."}
    IN  IF dots = {} THEN <<>>
        ELSE LET i == CHOOSE j \in dots : \A k \in dots : k <= j
             IN  IF 1 < i /\ i < Len(name)
                 THEN SubSeq(name, i, Len(name))
                 ELSE <<>>

\* fnmatch of one path segment: '*' matches any run of characters,
\* '?' any one character, anything else itself (case-sensitive)
RECURSIVE FnMatch(_, _)
FnMatch(pat, name) ==
    IF pat = <<>> THEN name = <<>>
    ELSE IF pat[1] = "*"
         THEN \/ FnMatch(Tail(pat), name)
              \/ name # <<>> /\ FnMatch(pat, Tail(name))
    ELSE IF name = <<>> THEN FALSE
    ELSE /\ (pat[1] = "?" \/ pat[1] = name[1])
         /\ FnMatch(Tail(pat), Tail(name))

(***************************************************************************)
(* Paths.                                                                  *)
(***************************************************************************)
Name(p) == p[Len(p)]
Parent(p) == SubSeq(p, 1, Len(p) - 1)
IsUnder(p, root) ==
    Len(p) > Len(root) /\ SubSeq(p, 1, Len(root)) = root

\* path.relative_to(self.project_path).parts
RelativeTo(p, root) == SubSeq(p, Len(root) + 1, Len(p))

\* str() of a relative path: the parts joined by '/'
RECURSIVE PathStr(_)
PathStr(parts) ==
    IF parts = <<>> THEN <<".">>
    ELSE IF Len(parts) = 1 THEN parts[1]
    ELSE parts[1] \o <<"/">> \o PathStr(Tail(parts))

\* p < q for Path: the tuples of parts compared lexicographically
RECURSIVE PathLess(_, _)
PathLess(p, q) ==
    IF q = <<>> THEN FALSE
    ELSE IF p = <<>> THEN TRUE
    ELSE IF p[1] # q[1] THEN StrLess(p[1], q[1])
    ELSE PathLess(Tail(p), Tail(q))

\* Path(...).resolve() against the current directory <<>>: '.' is dropped,
\* '..' removes the part before it
RECURSIVE ResolveFrom(_, _)
ResolveFrom(done, rest) ==
    IF rest = <<>> THEN done
    ELSE IF rest[1] = <<".">> THEN ResolveFrom(done, Tail(rest))
    ELSE IF rest[1] = <<".", ".">>
         THEN ResolveFrom(IF done = <<>> THEN <<>> ELSE Parent(done), Tail(rest))
    ELSE ResolveFrom(Append(done, rest[1]), Tail(rest))

\* variant: the path is kept as given, without resolve()
ResolveNot(p) == p

Resolve(p) == ResolveFrom(<<>>, p)

\* sorted(...) of a list of paths (stable insertion sort)
RECURSIVE InsertSorted(_, _)
InsertSorted(p, sorted) ==
    IF sorted = <<>> THEN <<p>>
    ELSE IF PathLess(p, sorted[1]) THEN <<p>> \o sorted
    ELSE <<sorted[1]>> \o InsertSorted(p, Tail(sorted))

RECURSIVE Sorted(_)
Sorted(paths) ==
    IF paths = <<>> THEN <<>>
    ELSE InsertSorted(paths[Len(paths)], Sorted(SubSeq(paths, 1, Len(paths) - 1)))

Range(seq) == {seq[i] : i \in 1..Len(seq)}

(***************************************************************************)
(* The class attribute FILE_TYPES: the categories in dict order, each with *)
(* its list of extensions.                                                 *)
(***************************************************************************)
FileTypesTable == <<
    [name |-> "python",
     extensions |-> <<<<".","p","y">>>>],
    [name |-> "javascript",
     extensions |-> <<<<".","j","s">>,
                     <<".","t","s">>,
                     <<".","j","s","x">>,
                     <<".","t","s","x">>>>],
    [name |-> "web",
     extensions |-> <<<<".","h","t","m","l">>,
                     <<".","c","s","s">>,
                     <<".","s","c","s","s">>,
                     <<".","l","e","s","s">>>>],
    [name |-> "config",
     extensions |-> <<<<".","j","s","o","n">>,
                     <<".","y","a","m","l">>,
                     <<".","y","m","l">>,
                     <<".","t","o","m","l">>,
                     <<".","i","n","i">>,
                     <<".","c","f","g">>>>],
    [name |-> "markdown",
     extensions |-> <<<<".","m","d">>,
                     <<".","r","s","t">>,
                     <<".","t","x","t">>>>],
    [name |-> "data",
     extensions |-> <<<<".","c","s","v">>,
                     <<".","j","s","o","n">>,
                     <<".","x","m","l">>,
                     <<".","s","q","l">>>>],
    [name |-> "image",
     extensions |-> <<<<".","p","n","g">>,
                     <<".","j","p","g">>,
                     <<".","j","p","e","g">>,
                     <<".","g","i","f">>,
                     <<".","s","v","g">>,
                     <<".","i","c","o">>>>],
    [name |-> "archive",
     extensions |-> <<<<".","z","i","p">>,
                     <<".","t","a","r">>,
                     <<".","g","z">>,
                     <<".","r","a","r">>,
                     <<".","7","z">>>>]
>>

\* _get_file_type with the table passed in: the first category, in dict
\* order, whose list holds the lowercased suffix, else 'other'
RECURSIVE FirstCategory(_, _)
FirstCategory(items, suffix) ==
    IF items = <<>> THEN "other"
    ELSE IF suffix \in Range(items[1].extensions) THEN items[1].name
    ELSE FirstCategory(Tail(items), suffix)

GetFileTypeNoLower(table, suffix) == FirstCategory(table, suffix)

_get_file_type(table, suffix) == FirstCategory(table, Lower(suffix))

(***************************************************************************)
(* The filesystem.                                                         *)
(***************************************************************************)
LargeThreshold == 1024 * 1024

\* the default of scan_project's max_depth
DefaultMaxDepth == 20

Sizes == {LargeThreshold, LargeThreshold + 1}

nProj == <<"p","r","o","j">>
nOut  == <<"o","u","t">>
nNope == <<"n","o","p","e">>
nPy   == <<"a",".","p","y">>
nDir  == <<"d">>
nHid  == <<".","h">>
nDot    == <<".">>
nDotDot == <<".",".">>

ProjectDir == <<nProj>>
OutDir == <<nOut>>

\* the fixture's names: files carry an extension, directories do not, and a
\* hidden name may be either
FileNames == {nPy, nHid}
DirNames == {nDir, nHid}
Names == FileNames \cup DirNames

File(size) == [kind |-> "file", size |-> size]
Dir == [kind |-> "dir", size |-> 0]

Exists(f, p) == p \in DOMAIN f
IsDir(f, p) == p = <<>> \/ (p \in DOMAIN f /\ f[p].kind = "dir")
IsFile(f, p) == p \in DOMAIN f /\ f[p].kind = "file"

Put(f, p, e) == [q \in DOMAIN f \cup {p} |-> IF q = p THEN e ELSE f[q]]
Remove(f, p) == [q \in DOMAIN f \ {p} |-> f[q]]

Children(f, d) == {p \in DOMAIN f : Len(p) = Len(d) + 1 /\ Parent(p) = d}

\* The entries of a directory in the order os.scandir yields them.  The
\* order is the operating system's; the lists built from it are compared as
\* collections, and find_files sorts, so the model lists by name.
RECURSIVE OrderPaths(_)
OrderPaths(S) ==
    IF S = {} THEN <<>>
    ELSE LET m == CHOOSE x \in S : \A y \in S \ {x} : PathLess(x, y)
         IN  <<m>> \o OrderPaths(S \ {m})

ListDir(f, d) == IF IsDir(f, d) THEN OrderPaths(Children(f, d)) ELSE <<>>

\* Path.rglob(pattern): every directory from the start directory down, parent
\* before children, contributes its entries whose name matches the pattern
RECURSIVE Rglob(_, _, _)
RECURSIVE RglobEach(_, _, _)
Rglob(f, d, pat) ==
    LET kids == ListDir(f, d)
        Matches(p) == FnMatch(pat, Name(p))
        IsSubdir(p) == IsDir(f, p)
    IN  SelectSeq(kids, Matches) \o RglobEach(f, SelectSeq(kids, IsSubdir), pat)
RglobEach(f, dirs, pat) ==
    IF dirs = <<>> THEN <<>>
    ELSE Rglob(f, dirs[1], pat) \o RglobEach(f, Tail(dirs), pat)

(***************************************************************************)
(* scan_project.                                                           *)
(***************************************************************************)
Max(a, b) == IF a >= b THEN a ELSE b

\* d[k] += 1 on a defaultdict(int)
Incr(d, k) ==
    [x \in DOMAIN d \cup {k} |-> IF x = k
                                 THEN (IF k \in DOMAIN d THEN d[k] + 1 ELSE 1)
                                 ELSE d[x]]

EmptyDict == [x \in {} |-> 0]

NewStats ==
    [total_files |-> 0, total_dirs |-> 0, total_size |-> 0,
     by_type |-> EmptyDict, by_extension |-> EmptyDict, max_depth |-> 0,
     empty_dirs |-> <<>>, large_files |-> <<>>]

\* variant: only the entry's own name is tested, as _tree does
AnyHiddenNameOnly(parts) == StartsWithDot(parts[Len(parts)])

\* any(part.startswith('.') for part in parts)
AnyHidden(parts) == \E i \in 1..Len(parts) : StartsWithDot(parts[i])

\* variant: the threshold itself counts as large
IsLargeInclusive(size) == size >= LargeThreshold

\* size > 1024 * 1024
IsLarge(size) == size > LargeThreshold

\* variant: the extension is tallied as it is spelt
ScanFileAsSpelt(stats, f, root, path, table) ==
    LET size == f[path].size
        suffix == Suffix(Name(path))
        file_type == _get_file_type(table, suffix)
    IN  [stats EXCEPT
            !.total_files = @ + 1,
            !.total_size = @ + size,
            !.by_extension = Incr(@, suffix),
            !.by_type = Incr(@, file_type),
            !.large_files =
                IF IsLarge(size)
                THEN Append(@, [path |-> PathStr(RelativeTo(path, root)),
                                size |-> size])
                ELSE @]

\* the branch of the loop body taken for a regular file
ScanFile(stats, f, root, path, table) ==
    LET size == f[path].size
        suffix == Lower(Suffix(Name(path)))
        file_type == _get_file_type(table, suffix)
    IN  [stats EXCEPT
            !.total_files = @ + 1,
            !.total_size = @ + size,
            !.by_extension = Incr(@, suffix),
            !.by_type = Incr(@, file_type),
            !.large_files =
                IF IsLarge(size)
                THEN Append(@, [path |-> PathStr(RelativeTo(path, root)),
                                size |-> size])
                ELSE @]

\* variant: emptiness is judged after hidden entries are filtered out
ScanDirFiltered(stats, f, root, path) ==
    [stats EXCEPT
        !.total_dirs = @ + 1,
        !.empty_dirs =
            IF {p \in Children(f, path) : ~StartsWithDot(Name(p))} = {}
            THEN Append(@, PathStr(RelativeTo(path, root)))
            ELSE @]

\* variant: the directory is recorded by its full path
ScanDirAbsolute(stats, f, root, path) ==
    [stats EXCEPT
        !.total_dirs = @ + 1,
        !.empty_dirs =
            IF Children(f, path) = {}
            THEN Append(@, PathStr(path))
            ELSE @]

\* the branch of the loop body taken for a directory
ScanDir(stats, f, root, path) ==
    [stats EXCEPT
        !.total_dirs = @ + 1,
        !.empty_dirs =
            IF Children(f, path) = {}
            THEN Append(@, PathStr(RelativeTo(path, root)))
            ELSE @]

\* one iteration of the loop over rglob('*')
ScanEntry(stats, f, root, path, max_depth, table) ==
    LET parts == RelativeTo(path, root)
        depth == Len(parts)
    IN  IF AnyHidden(parts) THEN stats
        ELSE IF depth > max_depth THEN stats
        ELSE LET seen == [stats EXCEPT !.max_depth = Max(@, depth)]
             IN  IF IsFile(f, path) THEN ScanFile(seen, f, root, path, table)
                 ELSE IF IsDir(f, path) THEN ScanDir(seen, f, root, path)
                 ELSE seen

RECURSIVE ScanLoop(_, _, _, _, _, _)
ScanLoop(stats, paths, f, root, max_depth, table) ==
    IF paths = <<>> THEN stats
    ELSE ScanLoop(ScanEntry(stats, f, root, paths[1], max_depth, table),
                  Tail(paths), f, root, max_depth, table)

scan_project(f, root, max_depth, table) ==
    ScanLoop(NewStats, Rglob(f, root, <<"*">>), f, root, max_depth, table)

(***************************************************************************)
(* find_files.                                                             *)
(***************************************************************************)
\* list(set(files)): the distinct elements, in no particular order
RECURSIVE SetToSeq(_)
SetToSeq(S) ==
    IF S = {} THEN <<>>
    ELSE LET x == CHOOSE y \in S : TRUE IN <<x>> \o SetToSeq(S \ {x})

\* self.FILE_TYPES.get(file_type, [])
RECURSIVE ExtensionsOf(_, _)
ExtensionsOf(table, file_type) ==
    IF table = <<>> THEN <<>>
    ELSE IF table[Len(table)].name = file_type THEN table[Len(table)].extensions
    ELSE ExtensionsOf(SubSeq(table, 1, Len(table) - 1), file_type)

\* variant: the loop over the extensions ends after the first
RglobFirstExtension(f, root, extensions) ==
    IF extensions = <<>> THEN <<>>
    ELSE Rglob(f, root, <<"*">> \o extensions[1])

RECURSIVE RglobExtensions(_, _, _)
RglobExtensions(f, root, extensions) ==
    IF extensions = <<>> THEN <<>>
    ELSE Rglob(f, root, <<"*">> \o extensions[1])
         \o RglobExtensions(f, root, Tail(extensions))

\* variant: the matches are returned in the order rglob yields them
FindFilesUnsorted(f, root, pattern, file_type, table) ==
    IF file_type # ""
    THEN SetToSeq(Range(
             RglobExtensions(f, root, ExtensionsOf(table, file_type))))
    ELSE Rglob(f, root, pattern)

\* file_type = "" stands for the default None
find_files(f, root, pattern, file_type, table) ==
    IF file_type # ""
    THEN Sorted(SetToSeq(Range(
             RglobExtensions(f, root, ExtensionsOf(table, file_type)))))
    ELSE Sorted(Rglob(f, root, pattern))

(***************************************************************************)
(* _format_size.  A size is written in base 1024, least significant digit  *)
(* first, which keeps sizes of a terabyte and more within reach; dividing  *)
(* by 1024 moves the point one digit up.  The sizes stay below 2^53, where *)
(* float division by 1024 is exact, so the value formatted is the exact    *)
(* quotient.                                                               *)
(***************************************************************************)
Units == << <<"B">>, <<"K","B">>, <<"M","B">>, <<"G","B">> >>

\* float(size): no digit behind the point yet
AsValue(size) == [digits |-> size, point |-> 0]

\* size /= 1024
Div1024(v) == [v EXCEPT !.point = @ + 1]

\* the digits before and behind the point
IntDigits(v) == SubSeq(v.digits, v.point + 1, Len(v.digits))
FracDigits(v) == SubSeq(v.digits, 1, v.point)

RECURSIVE LimbsValue(_)
LimbsValue(digits) ==
    IF digits = <<>> THEN 0 ELSE digits[1] + 1024 * LimbsValue(Tail(digits))

AllZero(digits) == \A i \in DOMAIN digits : digits[i] = 0

\* variant: the comparison is size <= 1024
AtMost1024(v) ==
    \/ AllZero(Tail(IntDigits(v)))
    \/ /\ IntDigits(v)[2] = 1
       /\ AllZero(Tail(Tail(IntDigits(v))))
       /\ IntDigits(v)[1] = 0
       /\ AllZero(FracDigits(v))

\* size < 1024
Below1024(v) == AllZero(Tail(IntDigits(v)))

\* ten times a fraction: the fraction left and the digit carried out of it
RECURSIVE Times10(_, _)
Times10(frac, carry) ==
    IF frac = <<>> THEN [frac |-> <<>>, carry |-> carry]
    ELSE LET x == 10 * frac[1] + carry
             rest == Times10(Tail(frac), x \div 1024)
         IN  [frac |-> <<x % 1024>> \o rest.frac, carry |-> rest.carry]

\* a fraction against one half: -1 below, 0 equal, 1 above
CompareHalf(frac) ==
    IF frac = <<>> THEN -1
    ELSE LET top == frac[Len(frac)]
             low == SubSeq(frac, 1, Len(frac) - 1)
         IN  IF top > 512 THEN 1
             ELSE IF top < 512 THEN -1
             ELSE IF AllZero(low) THEN 0 ELSE 1

\* the value in tenths, rounded to the nearest, a tie to the even one
RoundTenths(v) ==
    LET scaled == Times10(FracDigits(v), 0)
        down == 10 * LimbsValue(IntDigits(v)) + scaled.carry
        half == CompareHalf(scaled.frac)
    IN  IF half = 1 \/ (half = 0 /\ down % 2 = 1) THEN down + 1 ELSE down

DecimalDigits == <<"0","1","2","3","4","5","6","7","8","9">>

RECURSIVE Decimal(_)
Decimal(n) ==
    IF n < 10 THEN <<DecimalDigits[n + 1]>>
    ELSE Append(Decimal(n \div 10), DecimalDigits[(n % 10) + 1])

\* f"{size:.1f}"
Format1f(v) ==
    LET tenths == RoundTenths(v)
    IN  Decimal(tenths \div 10) \o <<".">> \o Decimal(tenths % 10)

RECURSIVE FormatLoop(_, _)
FormatLoop(v, units) ==
    IF units = <<>> THEN Format1f(v) \o <<" ">> \o <<"T","B">>
    ELSE IF Below1024(v) THEN Format1f(v) \o <<" ">> \o units[1]
    ELSE FormatLoop(Div1024(v), Tail(units))

_format_size(size) == FormatLoop(AsValue(size), Units)

(***************************************************************************)
(* get_project_tree.  The text is a tuple of characters; the box-drawing   *)
(* characters are written by their code points.                            *)
(***************************************************************************)
BoxTee == "U+251C"
BoxElbow == "U+2514"
BoxDash == "U+2500"
BoxBar == "U+2502"
Newline == "\n"

\* st_size written in base 1024, as _format_size takes it
RECURSIVE ToDigits(_, _)
ToDigits(n, len) ==
    IF len = 0 THEN <<>> ELSE <<n % 1024>> \o ToDigits(n \div 1024, len - 1)

\* sorted(path.iterdir(), key=lambda x: (not x.is_dir(), x.name))
TreeBefore(f, x, y) ==
    IF IsDir(f, x) # IsDir(f, y) THEN IsDir(f, x)
    ELSE StrLess(Name(x), Name(y))

RECURSIVE TreeOrder(_, _)
TreeOrder(f, S) ==
    IF S = {} THEN <<>>
    ELSE LET m == CHOOSE x \in S : \A y \in S \ {x} : TreeBefore(f, x, y)
         IN  <<m>> \o TreeOrder(f, S \ {m})

\* depth > max_depth
TooDeep(depth, max_depth) == depth > max_depth

\* the nested _tree: the lines of the entries of path, and of the
\* directories among them
RECURSIVE Tree(_, _, _, _, _)
RECURSIVE TreeItems(_, _, _, _, _)
Tree(f, path, depth, max_depth, prefix) ==
    IF TooDeep(depth, max_depth) THEN <<>>
    ELSE IF StartsWithDot(Name(path)) THEN <<>>
    ELSE TreeItems(f, TreeOrder(f, Children(f, path)), depth, max_depth, prefix)
TreeItems(f, items, depth, max_depth, prefix) ==
    IF items = <<>> THEN <<>>
    ELSE LET item == items[1]
             is_last == Len(items) = 1
             current_prefix == IF is_last THEN <<BoxElbow, BoxDash, BoxDash, " ">>
                               ELSE <<BoxTee, BoxDash, BoxDash, " ">>
             next_prefix == IF is_last THEN <<" ", " ", " ", " ">>
                            ELSE <<BoxBar, " ", " ", " ">>
             own == IF IsDir(f, item)
                    THEN <<prefix \o current_prefix \o Name(item) \o <<"/">>>>
                         \o Tree(f, item, depth + 1, max_depth, prefix \o next_prefix)
                    ELSE <<prefix \o current_prefix \o Name(item) \o <<" ", "(">>
                           \o _format_size(ToDigits(f[item].size, 6)) \o <<")">>>>
         IN  own \o TreeItems(f, Tail(items), depth, max_depth, prefix)

\* '\n'.join(lines)
RECURSIVE JoinLines(_)
JoinLines(lines) ==
    IF lines = <<>> THEN <<>>
    ELSE IF Len(lines) = 1 THEN lines[1]
    ELSE lines[1] \o <<Newline>> \o JoinLines(Tail(lines))

\* the prefix argument is never read: _tree has a parameter of its own
get_project_tree(f, root, max_depth) ==
    JoinLines(<<Name(root) \o <<"/">>>> \o Tree(f, root, 0, max_depth, <<>>))

(***************************************************************************)
(* copy_files and delete_files.  A loop yields the filesystem it leaves,   *)
(* the local count, and whether an exception left it.                      *)
(***************************************************************************)
\* dest_path.mkdir(parents=True, exist_ok=True)
RECURSIVE MkdirParents(_, _)
MkdirParents(f, p) ==
    IF IsDir(f, p) THEN [fs |-> f, raised |-> FALSE]
    ELSE IF Exists(f, p) THEN [fs |-> f, raised |-> TRUE]
    ELSE LET up == MkdirParents(f, Parent(p))
         IN  IF up.raised THEN up
             ELSE [fs |-> Put(up.fs, p, Dir), raised |-> FALSE]

\* dest_file.write_bytes(file.read_bytes()) fails when the source is a
\* directory, when dest_path is not a directory, or when dest_file is one
CanCopy(f, file, dest_path) ==
    /\ IsFile(f, file)
    /\ IsDir(f, dest_path)
    /\ ~IsDir(f, dest_path \o <<Name(file)>>)

\* variant: a file whose name is already taken in dest_path is skipped
RECURSIVE CopyLoopKeepExisting(_, _, _, _)
CopyLoopKeepExisting(f, files, dest_path, n) ==
    IF files = <<>> THEN [fs |-> f, count |-> n, raised |-> FALSE]
    ELSE IF ~CanCopy(f, files[1], dest_path)
         THEN [fs |-> f, count |-> n, raised |-> TRUE]
    ELSE IF Exists(f, dest_path \o <<Name(files[1])>>)
         THEN CopyLoopKeepExisting(f, Tail(files), dest_path, n)
    ELSE CopyLoopKeepExisting(
             Put(f, dest_path \o <<Name(files[1])>>, File(f[files[1]].size)),
             Tail(files), dest_path, n + 1)

RECURSIVE CopyLoop(_, _, _, _)
CopyLoop(f, files, dest_path, n) ==
    IF files = <<>> THEN [fs |-> f, count |-> n, raised |-> FALSE]
    ELSE IF ~CanCopy(f, files[1], dest_path)
         THEN [fs |-> f, count |-> n, raised |-> TRUE]
    ELSE CopyLoop(Put(f, dest_path \o <<Name(files[1])>>, File(f[files[1]].size)),
                  Tail(files), dest_path, n + 1)

copy_files(f, root, pattern, dest_dir, create_dirs, table) ==
    LET dest_path == dest_dir
        made == IF create_dirs THEN MkdirParents(f, dest_path)
                ELSE [fs |-> f, raised |-> FALSE]
    IN  IF made.raised THEN [fs |-> made.fs, count |-> 0, raised |-> TRUE]
        ELSE CopyLoop(made.fs,
                      find_files(made.fs, root, pattern, "", table),
                      dest_path, 0)

\* variant: the loop counts the files without unlinking them
DeleteLoopCountOnly(f, files, n) ==
    [fs |-> f, count |-> n + Len(files), raised |-> FALSE]

\* file.unlink() removes a file and fails on a directory or a missing entry
RECURSIVE DeleteLoop(_, _, _)
DeleteLoop(f, files, n) ==
    IF files = <<>> THEN [fs |-> f, count |-> n, raised |-> FALSE]
    ELSE IF ~IsFile(f, files[1])
         THEN [fs |-> f, count |-> n, raised |-> TRUE]
    ELSE DeleteLoop(Remove(f, files[1]), Tail(files), n + 1)

\* variant: only an explicit 'n' refuses
RefusedOnlyN(response) == Lower(response) = <<"n">>

\* response.lower() != 'y'
Refused(response) == Lower(response) # <<"y">>

\* value is what the call returns when no exception leaves it
delete_files(f, root, pattern, confirm, response, table) ==
    LET files == find_files(f, root, pattern, "", table)
    IN  IF files = <<>>
        THEN [fs |-> f, count |-> 0, raised |-> FALSE, value |-> 0]
        ELSE IF confirm /\ Refused(response)
        THEN [fs |-> f, count |-> 0, raised |-> FALSE, value |-> 0]
        ELSE LET done == DeleteLoop(f, files, 0)
             IN  [fs |-> done.fs, count |-> done.count,
                  raised |-> done.raised, value |-> done.count]

(***************************************************************************)
(* Inputs.                                                                 *)
(***************************************************************************)
Patterns == { <<"*">>, <<"*", ".", "p", "y">> }
DestDirs == { OutDir, ProjectDir \o <<nDir>> }
RootInputs == { ProjectDir, <<nDot>> \o ProjectDir \o <<nDir, nDotDot>>,
                <<nNope>> }
\* find_files' default file_type=None
NoFileType == ""
\* input() is not called when confirm is False
NoResponse == <<>>
Responses == { <<"y">>, <<"Y">>, <<"n", "o">> }

\* the relative paths of a tree of at most MaxEntries entries
TreePaths == UNION {[1..n -> Names] : n \in 1..MaxEntries}

Returned(v) == [kind |-> "return", value |-> v]
Raised(e) == [kind |-> "raise", exc |-> e]
NoResult == [kind |-> "none"]
Idle == [op |-> "idle"]

(***************************************************************************)
(* The state machine.                                                      *)
(***************************************************************************)
Init ==
    /\ fs = [p \in {ProjectDir} |-> Dir]
    /\ managers = {}
    /\ FILE_TYPES = FileTypesTable
    /\ call = Idle
    /\ ret = NoResult
    /\ count = 0
    /\ mutations = 0

\* the fixture fills the tree before it constructs a manager
CanCreate(p) ==
    /\ call = Idle
    /\ managers = {}
    /\ ~Exists(fs, p)
    /\ IsDir(fs, Parent(p))
    /\ Cardinality({q \in DOMAIN fs : IsUnder(q, ProjectDir)}) < MaxEntries

\* the fixture's Path.write_bytes / write_text / touch
WriteBytes(rel, size) ==
    /\ CanCreate(ProjectDir \o rel)
    /\ Name(rel) \in FileNames
    /\ fs' = Put(fs, ProjectDir \o rel, File(size))
    /\ UNCHANGED <<managers, FILE_TYPES, call, ret, count, mutations>>

\* the fixture's Path.mkdir
Mkdir(rel) ==
    /\ CanCreate(ProjectDir \o rel)
    /\ Name(rel) \in DirNames
    /\ fs' = Put(fs, ProjectDir \o rel, Dir)
    /\ UNCHANGED <<managers, FILE_TYPES, call, ret, count, mutations>>

\* ProjectManager(project_path)
Construct(project_path) ==
    LET resolved == Resolve(project_path)
    IN  /\ call = Idle
        /\ call' = [op |-> "__init__", project_path |-> project_path]
        /\ IF Exists(fs, resolved)
           THEN /\ managers' = managers \cup {resolved}
                /\ ret' = Returned(resolved)
           ELSE /\ managers' = managers
                /\ ret' = Raised("ValueError")
        /\ count' = 0
        /\ UNCHANGED <<fs, FILE_TYPES, mutations>>

\* variant: the scan leaves its statistics in a file of the project, as
\* export_to_json does with its output file
ScanProjectExporting(self, max_depth) ==
    /\ call = Idle \/ call.op = "scan_project"
    /\ call' = [op |-> "scan_project", self |-> self, max_depth |-> max_depth]
    /\ ret' = Returned(scan_project(fs, self, max_depth, FILE_TYPES))
    /\ fs' = Put(fs, self \o <<nOut>>, File(LargeThreshold))
    /\ count' = 0
    /\ UNCHANGED <<managers, FILE_TYPES, mutations>>

\* the caller may scan again at once, with the earlier result still at hand
ScanProject(self, max_depth) ==
    /\ call = Idle \/ call.op = "scan_project"
    /\ call' = [op |-> "scan_project", self |-> self, max_depth |-> max_depth]
    /\ ret' = Returned(scan_project(fs, self, max_depth, FILE_TYPES))
    /\ count' = 0
    /\ UNCHANGED <<fs, managers, FILE_TYPES, mutations>>

FindFiles(self, pattern, file_type) ==
    /\ call = Idle
    /\ call' = [op |-> "find_files", self |-> self, pattern |-> pattern,
                file_type |-> file_type]
    /\ ret' = Returned(find_files(fs, self, pattern, file_type, FILE_TYPES))
    /\ count' = 0
    /\ UNCHANGED <<fs, managers, FILE_TYPES, mutations>>

GetProjectTree(self, max_depth) ==
    /\ call = Idle
    /\ call' = [op |-> "get_project_tree", self |-> self,
                max_depth |-> max_depth]
    /\ ret' = Returned(get_project_tree(fs, self, max_depth))
    /\ count' = 0
    /\ UNCHANGED <<fs, managers, FILE_TYPES, mutations>>

CopyFiles(self, pattern, dest_dir, create_dirs) ==
    LET out == copy_files(fs, self, pattern, dest_dir, create_dirs, FILE_TYPES)
    IN  /\ call = Idle
        /\ mutations < MaxMutations
        /\ call' = [op |-> "copy_files", self |-> self, pattern |-> pattern,
                    dest_dir |-> dest_dir, create_dirs |-> create_dirs]
        /\ fs' = out.fs
        /\ count' = out.count
        /\ ret' = IF out.raised THEN Raised("OSError") ELSE Returned(out.count)
        /\ mutations' = mutations + 1
        /\ UNCHANGED <<managers, FILE_TYPES>>

DeleteFiles(self, pattern, confirm, response) ==
    LET out == delete_files(fs, self, pattern, confirm, response, FILE_TYPES)
    IN  /\ call = Idle
        /\ mutations < MaxMutations
        /\ call' = [op |-> "delete_files", self |-> self, pattern |-> pattern,
                    confirm |-> confirm, response |-> response]
        /\ fs' = out.fs
        /\ count' = out.count
        /\ ret' = IF out.raised THEN Raised("OSError") ELSE Returned(out.value)
        /\ mutations' = mutations + 1
        /\ UNCHANGED <<managers, FILE_TYPES>>

\* the caller is done with the outcome of the call and goes on
Return ==
    /\ call # Idle
    /\ call' = Idle
    /\ ret' = NoResult
    /\ count' = 0
    /\ UNCHANGED <<fs, managers, FILE_TYPES, mutations>>

Next ==
    \/ \E rel \in TreePaths, size \in Sizes : WriteBytes(rel, size)
    \/ \E rel \in TreePaths : Mkdir(rel)
    \/ \E project_path \in RootInputs : Construct(project_path)
    \/ \E self \in managers, max_depth \in 0..MaxScanDepth :
           ScanProject(self, max_depth)
    \/ \E self \in managers, pattern \in Patterns :
           FindFiles(self, pattern, NoFileType)
    \/ \E self \in managers, max_depth \in 0..MaxScanDepth :
           GetProjectTree(self, max_depth)
    \/ \E self \in managers, pattern \in Patterns, dest_dir \in DestDirs,
          create_dirs \in BOOLEAN :
           CopyFiles(self, pattern, dest_dir, create_dirs)
    \/ \E self \in managers, pattern \in Patterns :
           DeleteFiles(self, pattern, FALSE, NoResponse)
    \/ \E self \in managers, pattern \in Patterns, response \in Responses :
           DeleteFiles(self, pattern, TRUE, response)
    \/ Return

Spec == Init /\ [][Next]_vars

(***************************************************************************)
(* The static helper _get_file_type, called on its own.                    *)
(***************************************************************************)
\* every extension of the table
ListedExtensions == UNION {Range(FileTypesTable[i].extensions) :
                             i \in DOMAIN FileTypesTable}

\* the spellings of s in upper, lower and mixed case
CaseVariants(s) ==
    {[i \in DOMAIN s |-> IF i \in up THEN UpperChar(s[i]) ELSE s[i]] :
        up \in SUBSET DOMAIN s}

UnlistedExtensions ==
    { <<>>, <<".">>, <<"p","y">>, <<".","p">>, <<".","p","y","c">>,
      <<".","u","n","k","n","o","w","n">>, <<".","t","m","p">>,
      <<".","P","Y","X">>, <<".","7">>, <<".","j","s","o">> }

SuffixInputs ==
    UNION {CaseVariants(e) : e \in ListedExtensions} \cup UnlistedExtensions

GetFileType(suffix) ==
    /\ call = Idle
    /\ call' = [op |-> "_get_file_type", suffix |-> suffix]
    /\ ret' = Returned(_get_file_type(FILE_TYPES, suffix))
    /\ count' = 0
    /\ UNCHANGED <<fs, managers, FILE_TYPES, mutations>>

NextTypes ==
    \/ \E suffix \in SuffixInputs : GetFileType(suffix)
    \/ Return

SpecTypes == Init /\ [][NextTypes]_vars

(***************************************************************************)
(* _format_size called on its own.                                         *)
(***************************************************************************)
\* the sizes tried: every digit at, next to and between the unit borders
SizeDigits == {0, 1, 256, 512, 768, 1023}
SizeInputs ==
    {<<a, b, c, e, g, h>> : a \in SizeDigits, b \in SizeDigits, c \in SizeDigits,
                            e \in SizeDigits, g \in {0, 1, 1023}, h \in {0, 1}}

FormatSize(size) ==
    /\ call = Idle
    /\ call' = [op |-> "_format_size", size |-> size]
    /\ ret' = Returned(_format_size(size))
    /\ count' = 0
    /\ UNCHANGED <<fs, managers, FILE_TYPES, mutations>>

NextSizes ==
    \/ \E size \in SizeInputs : FormatSize(size)
    \/ Return

SpecSizes == Init /\ [][NextSizes]_vars

(***************************************************************************)
(* A manager on a project whose names carry several extensions of one      *)
(* category, an extension in upper case and no extension at all.           *)
(***************************************************************************)
nMd  == <<"m",".","m","d">>
nRst == <<"r",".","r","s","t">>
nTxt == <<"N",".","T","X","T">>
nX   == <<"x">>
nSub == <<"s">>
nVmd == <<"v",".","m","d">>

\* the entries a project of this kind may hold
CaseEntries ==
    { [rel |-> <<nMd>>, entry |-> File(LargeThreshold)],
      [rel |-> <<nTxt>>, entry |-> File(LargeThreshold + 1)],
      [rel |-> <<nX>>, entry |-> File(LargeThreshold + 1)],
      [rel |-> <<nSub>>, entry |-> Dir],
      [rel |-> <<nSub, nMd>>, entry |-> File(LargeThreshold)],
      [rel |-> <<nSub, nRst>>, entry |-> File(LargeThreshold + 1)],
      [rel |-> <<nSub, nPy>>, entry |-> File(LargeThreshold)],
      [rel |-> <<nVmd>>, entry |-> Dir],
      [rel |-> <<nHid>>, entry |-> Dir],
      [rel |-> <<nHid, nRst>>, entry |-> File(LargeThreshold)] }

\* a choice of entries in which every entry has its directory
IsTree(S) ==
    \A e \in S : Len(e.rel) > 1 => \E d \in S : d.rel = Parent(e.rel)

TreeOf(S) ==
    [p \in {ProjectDir} \cup {ProjectDir \o e.rel : e \in S} |->
        IF p = ProjectDir THEN Dir
        ELSE (CHOOSE e \in S : ProjectDir \o e.rel = p).entry]

CaseTrees == {TreeOf(S) : S \in {T \in SUBSET CaseEntries : IsTree(T)}}

FileTypeInputs == {"markdown", "python", "nosuch"}

InitCase ==
    /\ fs \in CaseTrees
    /\ managers = {ProjectDir}
    /\ FILE_TYPES = FileTypesTable
    /\ call = Idle
    /\ ret = NoResult
    /\ count = 0
    /\ mutations = 0

NextCase ==
    \/ \E self \in managers, max_depth \in 0..MaxScanDepth :
           ScanProject(self, max_depth)
    \/ \E self \in managers, pattern \in Patterns, file_type \in FileTypeInputs :
           FindFiles(self, pattern, file_type)
    \/ Return

SpecCase == InitCase /\ [][NextCase]_vars

(***************************************************************************)
(* Properties.                                                             *)
(***************************************************************************)
HasHiddenPart(parts) == \E i \in DOMAIN parts : Head(parts[i]) = "."

\* the entries a scan of root to max_depth is to count
Counted(f, root, max_depth) ==
    {p \in DOMAIN f : /\ IsUnder(p, root)
                      /\ ~HasHiddenPart(RelativeTo(p, root))
                      /\ Len(p) - Len(root) <= max_depth}
CountedFiles(f, root, max_depth) ==
    {p \in Counted(f, root, max_depth) : f[p].kind = "file"}
CountedDirs(f, root, max_depth) ==
    {p \in Counted(f, root, max_depth) : f[p].kind = "dir"}

RECURSIVE SumSizes(_, _)
SumSizes(f, S) ==
    IF S = {} THEN 0
    ELSE LET p == CHOOSE q \in S : TRUE IN f[p].size + SumSizes(f, S \ {p})

\* C1: scan_project(maxDepth) returns total_files = the number of files
\* under the root with no hidden path component and depth <= maxDepth,
\* total_dirs = the number of such directories (empty ones included), and
\* total_size = the sum of the sizes of exactly those files.
C1_ScanTotals ==
    call.op = "scan_project" =>
        LET files == CountedFiles(fs, call.self, call.max_depth)
            dirs == CountedDirs(fs, call.self, call.max_depth)
        IN  /\ ret.value.total_files = Cardinality(files)
            /\ ret.value.total_dirs = Cardinality(dirs)
            /\ ret.value.total_size = SumSizes(fs, files)

\* a scan that counted a file and an empty directory and left out a hidden
\* entry
C1_Witness ==
    /\ call.op = "scan_project"
    /\ ret.value.total_files >= 1
    /\ \E d \in CountedDirs(fs, call.self, call.max_depth) : Children(fs, d) = {}
    /\ \E p \in DOMAIN fs : /\ IsUnder(p, call.self)
                            /\ HasHiddenPart(RelativeTo(p, call.self))
                            /\ p \notin Counted(fs, call.self, call.max_depth)

\* the directory each constructor argument denotes
Denoted(project_path) ==
    IF project_path \in {ProjectDir, <<nDot>> \o ProjectDir \o <<nDir, nDotDot>>}
    THEN ProjectDir
    ELSE project_path

\* C2: constructing a ProjectManager on a path that does not exist raises
\* ValueError and yields no manager; on an existing path it succeeds and
\* project_path is the resolved absolute path.
C2_Construct ==
    [][call'.op = "__init__" =>
        LET target == Denoted(call'.project_path)
        IN  IF target \in DOMAIN fs
            THEN /\ ret' = Returned(target)
                 /\ managers' = managers \cup {target}
            ELSE /\ ret' = Raised("ValueError")
                 /\ managers' = managers]_vars

\* a construction on a missing path, which raised, after one that gave a
\* manager of 'proj'
C2_Witness ==
    /\ call.op = "__init__"
    /\ call.project_path = <<nNope>>
    /\ ret = Raised("ValueError")
    /\ managers = {ProjectDir}

\* C3: when delete_files(pattern, confirm=False) runs to completion, every
\* entry find_files(pattern) matched at the start is removed, the count
\* returned is the number of matches, no other entry is removed or changed,
\* and find_files(pattern) then returns the empty list.
C3_DeleteAll ==
    [][(call'.op = "delete_files" /\ ~call'.confirm /\ ret'.kind = "return") =>
        LET matched == find_files(fs, call'.self, call'.pattern, "",
                                  FILE_TYPES)
        IN  /\ \A p \in Range(matched) : p \notin DOMAIN fs'
            /\ ret'.value = Len(matched)
            /\ \A p \in DOMAIN fs \ Range(matched) :
                   p \in DOMAIN fs' /\ fs'[p] = fs[p]
            /\ DOMAIN fs' \subseteq DOMAIN fs
            /\ find_files(fs', call'.self, call'.pattern, "",
                          FILE_TYPES) = <<>>]_vars

\* a deletion without confirmation that removed two files and kept others
C3_Witness ==
    /\ call.op = "delete_files"
    /\ ~call.confirm
    /\ ret = Returned(2)
    /\ \E p \in DOMAIN fs : IsUnder(p, call.self)

\* the prompt's yes: 'y' in either case
IsYes(response) == response \in {<<"y">>, <<"Y">>}

\* C4: delete_files returns 0 and leaves the filesystem unchanged when the
\* pattern has no match (whatever confirm is), and when confirmation is
\* requested and the answer is not yes.
C4_DeleteNothing ==
    [][(/\ call'.op = "delete_files"
        /\ \/ find_files(fs, call'.self, call'.pattern, "",
                         FILE_TYPES) = <<>>
           \/ call'.confirm /\ ~IsYes(call'.response)) =>
        (ret' = Returned(0) /\ fs' = fs)]_vars

\* a refused deletion whose pattern still has matches
C4_Witness ==
    /\ call.op = "delete_files"
    /\ call.confirm
    /\ call.response = <<"n", "o">>
    /\ ret = Returned(0)
    /\ find_files(fs, call.self, call.pattern, "",
                  FILE_TYPES) # <<>>

\* what a copy_files step started from and what a scan of its destination
\* then finds
CopyMatches ==
    find_files(fs, call'.self, call'.pattern, "", FILE_TYPES)
CopyIntoEmpty ==
    /\ call'.op = "copy_files"
    /\ ret'.kind = "return"
    /\ Children(fs, call'.dest_dir) = {}
    /\ IsDir(fs', call'.dest_dir)
Rescan ==
    scan_project(fs', call'.dest_dir, DefaultMaxDepth, FILE_TYPES)
BaseNames(paths) == {Name(paths[i]) : i \in DOMAIN paths}

\* C5 as stated: after copy_files into an initially empty destination, a scan
\* of the destination finds as many files as there were source matches, which
\* is the count returned, also when two matches share a base name.
C5_Original ==
    [][CopyIntoEmpty =>
        /\ ret'.value = Len(CopyMatches)
        /\ Rescan.total_files = Len(CopyMatches)]_vars

\* C5 amended: after copy_files into an initially empty destination the count
\* returned is the number of source matches, and a scan of the destination
\* finds one file for each distinct non-hidden base name among the matches.
C5_CopyBaseNames ==
    [][CopyIntoEmpty =>
        /\ ret'.value = Len(CopyMatches)
        /\ Rescan.total_files =
               Cardinality({n \in BaseNames(CopyMatches) : Head(n) # "."})
        /\ {Name(p) : p \in Children(fs', call'.dest_dir)}
               = BaseNames(CopyMatches)]_vars

\* a copy of two files of the same name that left one file in the destination
C5_Witness ==
    /\ call.op = "copy_files"
    /\ ret = Returned(2)
    /\ count = 2
    /\ Cardinality(Children(fs, call.dest_dir)) = 1

\* the position in files of the first entry that is a directory, 0 if none
FirstDir(f, files) ==
    IF \E i \in DOMAIN files : IsDir(f, files[i])
    THEN CHOOSE i \in DOMAIN files :
             IsDir(f, files[i]) /\ \A j \in 1..(i - 1) : ~IsDir(f, files[j])
    ELSE 0

\* C6 as stated: when the k-th entry of a copy_files or delete_files batch
\* cannot be processed because it is a directory, the later entries are left
\* alone, the k-1 earlier ones stay copied or deleted, and the call returns
\* k-1.
C6_Original ==
    [][LET files == find_files(fs, call'.self, call'.pattern, "",
                               FILE_TYPES)
           k == FirstDir(fs, files)
       IN  /\ (/\ call'.op = "delete_files"
               /\ ~call'.confirm \/ IsYes(call'.response)
               /\ k > 0) =>
                  /\ DOMAIN fs' = DOMAIN fs \ {files[i] : i \in 1..(k - 1)}
                  /\ ret' = Returned(k - 1)
           /\ (/\ call'.op = "copy_files"
               /\ IsDir(fs, call'.dest_dir)
               /\ Children(fs, call'.dest_dir) = {}
               /\ k > 0) =>
                  /\ {Name(p) : p \in Children(fs', call'.dest_dir)}
                         = {Name(files[i]) : i \in 1..(k - 1)}
                  /\ ret' = Returned(k - 1)]_vars

\* the directories a scan counts whose entries are all hidden, one at least
OnlyHiddenInside(f, root, max_depth) ==
    {d \in CountedDirs(f, root, max_depth) :
        /\ Children(f, d) # {}
        /\ \A p \in Children(f, d) : Head(Name(p)) = "."}

\* C7 as stated: a counted directory that contains only hidden entries is
\* recorded in empty_dirs.
C7_Original ==
    call.op = "scan_project" =>
        \A d \in OnlyHiddenInside(fs, call.self, call.max_depth) :
            PathStr(RelativeTo(d, call.self)) \in Range(ret.value.empty_dirs)

\* C7 amended: a counted directory that contains only hidden entries (one at
\* least) is not recorded in empty_dirs.
C7_HiddenOnlyNotEmpty ==
    call.op = "scan_project" =>
        \A d \in OnlyHiddenInside(fs, call.self, call.max_depth) :
            PathStr(RelativeTo(d, call.self)) \notin Range(ret.value.empty_dirs)

\* a scan that counted a directory holding only a hidden entry
C7_Witness ==
    /\ call.op = "scan_project"
    /\ OnlyHiddenInside(fs, call.self, call.max_depth) # {}

\* C8: empty_dirs holds, once each and as paths relative to the root, exactly
\* the counted directories that have no direct child entry.
C8_EmptyDirs ==
    call.op = "scan_project" =>
        LET listed == ret.value.empty_dirs
            empty == {d \in CountedDirs(fs, call.self, call.max_depth) :
                         \A p \in DOMAIN fs : Parent(p) # d}
        IN  /\ Range(listed) = {PathStr(RelativeTo(d, call.self)) : d \in empty}
            /\ Len(listed) = Cardinality(empty)

\* a scan that lists an empty directory and counts one that is not empty
C8_Witness ==
    /\ call.op = "scan_project"
    /\ Len(ret.value.empty_dirs) >= 1
    /\ ret.value.total_dirs > Len(ret.value.empty_dirs)

\* C9: large_files holds, with relative path and size, exactly the counted
\* files larger than 1,048,576 bytes: one of 1,048,577 bytes is listed, one
\* of 1,048,576 bytes is not.
C9_LargeFiles ==
    call.op = "scan_project" =>
        LET listed == ret.value.large_files
            files == CountedFiles(fs, call.self, call.max_depth)
            Record(p) == [path |-> PathStr(RelativeTo(p, call.self)),
                          size |-> fs[p].size]
        IN  /\ Range(listed) = {Record(p) : p \in {q \in files : fs[q].size > 1048576}}
            /\ Len(listed) = Cardinality({q \in files : fs[q].size > 1048576})
            /\ \A p \in files :
                   /\ fs[p].size = 1048577 => Record(p) \in Range(listed)
                   /\ fs[p].size = 1048576 => Record(p) \notin Range(listed)

\* a scan over a file of 1,048,577 bytes and one of 1,048,576 bytes
C9_Witness ==
    /\ call.op = "scan_project"
    /\ Len(ret.value.large_files) = 1
    /\ \E p \in CountedFiles(fs, call.self, call.max_depth) : fs[p].size = 1048577
    /\ \E p \in CountedFiles(fs, call.self, call.max_depth) : fs[p].size = 1048576

CategoryNames == {FileTypesTable[i].name : i \in DOMAIN FileTypesTable}

\* C10: _get_file_type returns a category for every extension string: for
\* any spelling of a listed extension the category the lowercase spelling
\* gets, which is one that lists it; for an extension listed nowhere 'other';
\* and FILE_TYPES stays as it is.
C10_GetFileType ==
    call.op = "_get_file_type" =>
        LET s == call.suffix
            bases == {e \in ListedExtensions : s \in CaseVariants(e)}
        IN  /\ ret.kind = "return"
            /\ ret.value \in CategoryNames \cup {"other"}
            /\ \A e \in bases :
                   /\ ret.value = _get_file_type(FILE_TYPES, e)
                   /\ \E i \in DOMAIN FileTypesTable :
                          /\ FileTypesTable[i].name = ret.value
                          /\ e \in Range(FileTypesTable[i].extensions)
            /\ bases = {} => ret.value = "other"
            /\ FILE_TYPES = FileTypesTable

\* the mixed-case spelling '.Json' classified as config
C10_Witness ==
    /\ call.op = "_get_file_type"
    /\ call.suffix = <<".","J","s","o","n">>
    /\ ret = Returned("config")

\* name.endswith(tail)
EndsWith(name, tail) ==
    /\ Len(name) >= Len(tail)
    /\ SubSeq(name, Len(name) - Len(tail) + 1, Len(name)) = tail

\* the entries below root that a pattern of Patterns selects
PatternMatches(f, root, pattern) ==
    {p \in DOMAIN f :
        /\ IsUnder(p, root)
        /\ pattern = <<"*", ".", "p", "y">> => EndsWith(Name(p), <<".", "p", "y">>)}

\* C11: find_files(pattern) with no category returns the entries below the
\* root whose name matches the pattern, each once, in strictly ascending path
\* order; for '*.py' the name of every returned path ends in '.py'.
C11_FindSorted ==
    (call.op = "find_files" /\ call.file_type = NoFileType) =>
        LET files == ret.value
            matches == PatternMatches(fs, call.self, call.pattern)
        IN  /\ Range(files) = matches
            /\ Len(files) = Cardinality(matches)
            /\ \A i, j \in DOMAIN files : i < j => PathLess(files[i], files[j])
            /\ call.pattern = <<"*", ".", "p", "y">> =>
                   \A i \in DOMAIN files :
                       LET name == Name(files[i])
                       IN  SubSeq(name, Len(name) - 2, Len(name)) = <<".", "p", "y">>

\* a search for '*.py' that found two files, rglob yielding them in the other
\* order, and left another entry out
C11_Witness ==
    /\ call.op = "find_files"
    /\ call.file_type = NoFileType
    /\ call.pattern = <<"*", ".", "p", "y">>
    /\ Len(ret.value) = 2
    /\ ret.value # Rglob(fs, call.self, call.pattern)
    /\ \E p \in DOMAIN fs : IsUnder(p, call.self) /\ p \notin Range(ret.value)

\* size < 1024^k
BelowPower(size, k) == \A i \in DOMAIN size : i > k => size[i] = 0

\* the unit the size's range calls for
UnitOf(size) ==
    IF BelowPower(size, 1) THEN <<"B">>
    ELSE IF BelowPower(size, 2) THEN <<"K","B">>
    ELSE IF BelowPower(size, 3) THEN <<"M","B">>
    ELSE IF BelowPower(size, 4) THEN <<"G","B">>
    ELSE <<"T","B">>
UnitIndex(size) == Cardinality({k \in 1..4 : ~BelowPower(size, k)})

\* the parts of a text 'digits.digit unit'
PointAt(text) == CHOOSE i \in DOMAIN text : text[i] = "."
SpaceAt(text) == CHOOSE i \in DOMAIN text : text[i] = " "
DigitValue(c) == (CHOOSE i \in DOMAIN DecimalDigits : DecimalDigits[i] = c) - 1
RECURSIVE NumberOf(_)
NumberOf(digits) ==
    IF digits = <<>> THEN 0
    ELSE 10 * NumberOf(SubSeq(digits, 1, Len(digits) - 1))
         + DigitValue(digits[Len(digits)])
PrintedTenths(text) ==
    10 * NumberOf(SubSeq(text, 1, PointAt(text) - 1)) + DigitValue(text[PointAt(text) + 1])
PrintedUnit(text) == SubSeq(text, SpaceAt(text) + 1, Len(text))

\* the size as a number, for sizes below 100 * 1024^2
IsSmall(size) == BelowPower(size, 3) /\ size[3] < 100
Abs(x) == IF x < 0 THEN -x ELSE x

\* C12: _format_size prints the unit of the size's range (B below 1024, KB
\* below 1024^2, MB below 1024^3, GB below 1024^4, TB from there on) and the
\* size divided by 1024 to the power of the unit's index, to one decimal;
\* 512, 1024, 1024^2 and 1024^3 give 512.0 B, 1.0 KB, 1.0 MB and 1.0 GB.
C12_FormatSize ==
    call.op = "_format_size" =>
        LET size == call.size
            text == ret.value
            u == UnitIndex(size)
            whole == LimbsValue(SubSeq(size, u + 1, Len(size)))
        IN  /\ PrintedUnit(text) = UnitOf(size)
            /\ Len(text) = SpaceAt(text) + Len(UnitOf(size))
            /\ SpaceAt(text) = PointAt(text) + 2
            /\ PrintedTenths(text) \in (10 * whole)..(10 * whole + 10)
            /\ IsSmall(size) =>
                   2 * Abs(10 * LimbsValue(size) - PrintedTenths(text) * 1024^u)
                       <= 1024^u
            /\ size = <<512, 0, 0, 0, 0, 0>> =>
                   text = <<"5","1","2",".","0"," ","B">>
            /\ size = <<0, 1, 0, 0, 0, 0>> =>
                   text = <<"1",".","0"," ","K","B">>
            /\ size = <<0, 0, 1, 0, 0, 0>> =>
                   text = <<"1",".","0"," ","M","B">>
            /\ size = <<0, 0, 0, 1, 0, 0>> =>
                   text = <<"1",".","0"," ","G","B">>

\* 1024^5 + 1024^4 printed in terabytes, the last unit
C12_Witness ==
    /\ call.op = "_format_size"
    /\ call.size = <<0, 0, 0, 0, 1, 1>>
    /\ ret = Returned(<<"1","0","2","5",".","0"," ","T","B">>)

ReadOnlyOps == {"scan_project", "find_files", "get_project_tree"}

\* C13: scan_project, find_files and get_project_tree leave every filesystem
\* entry as it is, no operation changes a manager's project_path, and a
\* scan_project call that directly follows one with the same arguments on the
\* unchanged tree returns the result the earlier call returned.
C13_ReadOnly ==
    [][/\ call'.op \in ReadOnlyOps => fs' = fs
       /\ call'.op \in ReadOnlyOps \cup {"copy_files", "delete_files"} =>
              /\ managers' = managers
              /\ call'.self \in managers'
       /\ (/\ call.op = "scan_project"
           /\ call'.op = "scan_project"
           /\ call'.self = call.self
           /\ call'.max_depth = call.max_depth) => ret' = ret]_vars

\* a scan, after a copy or a delete, of a tree that still has a file
C13_Witness ==
    /\ call.op = "scan_project"
    /\ mutations >= 1
    /\ ret.value.total_files >= 1
    /\ call.self \in managers

\* the lines of a text
RECURSIVE SplitLines(_, _)
SplitLines(text, line) ==
    IF text = <<>> THEN <<line>>
    ELSE IF text[1] = Newline THEN <<line>> \o SplitLines(Tail(text), <<>>)
    ELSE SplitLines(Tail(text), Append(line, text[1]))

\* a line of the tree: its indentation, four characters a level, then the
\* entry's name, then '/' or the size in brackets
IndentChars == {BoxTee, BoxElbow, BoxDash, BoxBar, " "}
Indent(line) ==
    (CHOOSE i \in DOMAIN line :
        line[i] \notin IndentChars /\ \A j \in 1..(i - 1) : line[j] \in IndentChars) - 1
LineDepth(line) == Indent(line) \div 4
LineName(line) ==
    LET rest == SubSeq(line, Indent(line) + 1, Len(line))
        stop == CHOOSE i \in DOMAIN rest :
                    rest[i] \in {"/", " "} /\ \A j \in 1..(i - 1) : rest[j] \notin {"/", " "}
    IN  SubSeq(rest, 1, stop - 1)

\* the entry a line stands for, relative to the root: its name below the
\* entry of the nearest line above it that is one level up
RECURSIVE LinePath(_, _)
LinePath(lines, i) ==
    IF LineDepth(lines[i]) <= 1 THEN <<LineName(lines[i])>>
    ELSE LET up == CHOOSE j \in 1..(i - 1) :
                       /\ LineDepth(lines[j]) = LineDepth(lines[i]) - 1
                       /\ \A k \in (j + 1)..(i - 1) :
                              LineDepth(lines[k]) # LineDepth(lines[i]) - 1
         IN  Append(LinePath(lines, up), LineName(lines[i]))

\* the entries the text of a tree shows below its first line, the root's
Rendered(text) ==
    LET lines == SplitLines(text, <<>>)
    IN  {LinePath(lines, i) : i \in 2..Len(lines)}

\* C14 as stated: no entry with a name that starts with '.', and no entry
\* below a directory with such a name, is a line of the tree that
\* get_project_tree returns.
C14_Original ==
    call.op = "get_project_tree" =>
        \A parts \in Rendered(ret.value) : ~HasHiddenPart(parts)

\* C15 as stated: the tree get_project_tree(max_depth) returns shows no entry
\* of depth greater than max_depth, and shows every entry of depth at most
\* max_depth that has no hidden path component.
C15_Original ==
    call.op = "get_project_tree" =>
        /\ \A parts \in Rendered(ret.value) : Len(parts) <= call.max_depth
        /\ \A p \in Counted(fs, call.self, call.max_depth) :
               RelativeTo(p, call.self) \in Rendered(ret.value)

\* the extensions FILE_TYPES lists for a category, none for an unknown one
CategoryExtensions(file_type) ==
    UNION {Range(FileTypesTable[i].extensions) :
              i \in {j \in DOMAIN FileTypesTable : FileTypesTable[j].name = file_type}}

\* C16: find_files with a category returns, whatever the pattern, the entries
\* below the root whose name ends with an extension FILE_TYPES lists for the
\* category, each once, in strictly ascending path order; for a name that is
\* no category of FILE_TYPES it returns the empty list.
C16_FindByType ==
    (call.op = "find_files" /\ call.file_type # NoFileType) =>
        LET files == ret.value
            extensions == CategoryExtensions(call.file_type)
            matches == {p \in DOMAIN fs :
                           /\ IsUnder(p, call.self)
                           /\ \E ext \in extensions : EndsWith(Name(p), ext)}
        IN  /\ Range(files) = matches
            /\ Len(files) = Cardinality(matches)
            /\ \A i, j \in DOMAIN files : i < j => PathLess(files[i], files[j])
            /\ call.file_type \notin CategoryNames => files = <<>>

\* a search for markdown, called with the pattern '*.py', that found a '.md'
\* and a '.rst' name and no '.py' name, with a 'N.TXT' in the tree
C16_Witness ==
    /\ call.op = "find_files"
    /\ call.file_type = "markdown"
    /\ call.pattern = <<"*", ".", "p", "y">>
    /\ \E i \in DOMAIN ret.value : Name(ret.value[i]) = nMd
    /\ \E i \in DOMAIN ret.value : Name(ret.value[i]) = nRst
    /\ ProjectDir \o <<nSub, nPy>> \in DOMAIN fs
    /\ ProjectDir \o <<nTxt>> \in DOMAIN fs
    /\ ProjectDir \o <<nTxt>> \notin Range(ret.value)

RECURSIVE SumCounts(_)
SumCounts(d) ==
    IF DOMAIN d = {} THEN 0
    ELSE LET k == CHOOSE x \in DOMAIN d : TRUE
         IN  d[k] + SumCounts([x \in DOMAIN d \ {k} |-> d[x]])

HasUpper(s) == \E i \in DOMAIN s : \E j \in DOMAIN UpperLetters : s[i] = UpperLetters[j]

\* C17: in every scan_project result the by_type counts add up to
\* total_files and so do the by_extension counts, every count is at least 1,
\* no by_extension key has an upper-case letter, large_files is no longer
\* than total_files, and max_depth is at most the max_depth argument.
C17_Tallies ==
    call.op = "scan_project" =>
        LET stats == ret.value
        IN  /\ SumCounts(stats.by_type) = stats.total_files
            /\ SumCounts(stats.by_extension) = stats.total_files
            /\ \A k \in DOMAIN stats.by_type : stats.by_type[k] >= 1
            /\ \A k \in DOMAIN stats.by_extension : stats.by_extension[k] >= 1
            /\ \A k \in DOMAIN stats.by_extension : ~HasUpper(k)
            /\ Len(stats.large_files) <= stats.total_files
            /\ stats.max_depth <= call.max_depth

\* a scan that counted 'N.TXT' under '.txt', files of two categories and of
\* three extensions, a large file, and stopped above a deeper entry
C17_Witness ==
    /\ call.op = "scan_project"
    /\ ProjectDir \o <<nTxt>> \in DOMAIN fs
    /\ <<".", "t", "x", "t">> \in DOMAIN ret.value.by_extension
    /\ Cardinality(DOMAIN ret.value.by_type) >= 2
    /\ Cardinality(DOMAIN ret.value.by_extension) >= 3
    /\ Len(ret.value.large_files) >= 1
    /\ \E p \in DOMAIN fs : Len(p) - Len(call.self) > call.max_depth

====
